---- MODULE Spec2Model ----
(***************************************************************************)
(* Model of the dispatch core of wa_baileys_erp:                           *)
(*   - MessageQueue   (src/src/services/MessageQueue.ts)                   *)
(*   - WhatsAppService (src/unnamed/part_001, lines 451-875)               *)
(*   - the event wiring of index.ts (src/unnamed/part_002, lines 600-644)  *)
(*                                                                         *)
(* Node runs every handler to its next await without interleaving, so one  *)
(* action is one such run-to-suspension segment.  The loop of processQueue *)
(* is a coroutine: a slot of `loops` holds where it is suspended.          *)
(*                                                                         *)
(* Time: only the pacing of the queue is timed.  `elapsed` is              *)
(* Date.now() - lastSendTime, saturated at maxDelay (beyond it the delay   *)
(* computed at line 84 is 0 whatever the draw); a loop's `timer` is the    *)
(* time left of the setTimeout it awaits.  The challenge-expiry and the    *)
(* reconnect timers are pending/not pending and fire at any moment.        *)
(***************************************************************************)
EXTENDS Integers, Sequences, FiniteSets, TLC

\* ---------------------------------------------------------------- bounds
MaxMsgs == 2          \* records ever enqueued in a run
MaxClearMsgs == 3     \* the same, in the runs with clear()
MaxQueueMsgs == 3     \* the same, in the runs of the queue on a connected service
MaxLoops == 2         \* processQueue activations alive at once
MaxInits == 2         \* successful initialize() calls in a run
MaxConnInits == 12    \* the same, in the runs of the connection manager alone
MaxQr == 2            \* challenges the transport issues in a run
MaxRequests == 3            \* fetches the page sends in a run
\* close events reported since the last open, when a socket repeats them
MaxCloses == 3

\* ------------------------------------------------------ program constants
minDelay == 1000
maxDelay == 5000
settleDelay == 100
retryLimit == 3
maxReconnectAttempts == 10
reconnectStep == 5000
reconnectCap == 30000
loggedOut == 401


\* Math.floor(Math.random() * (maxDelay - minDelay + 1)) + minDelay ranges
\* over minDelay..maxDelay; the draws explored are both ends and the middle.
RandomDelays == {minDelay, (minDelay + maxDelay) \div 2, maxDelay}

\* Where a synchronous listener of the hand-off may throw.  index.ts wires
\* one synchronous listener to messageSending (logging, io.emit); the
\* listeners of sendMessage end in async functions, which never throw into
\* emit().
ThrowPoints == {"none", "messageSending"}

Max(a, b) == IF a >= b THEN a ELSE b
Min(a, b) == IF a <= b THEN a ELSE b

Ids == 1..Max(MaxMsgs, Max(MaxClearMsgs, MaxQueueMsgs))

VARIABLES
  \* MessageQueue
  queue,               \* MessageQueueItem[]: records [id, phoneOk, status, retryCount]
  isProcessing,
  elapsed,             \* Date.now() - lastSendTime, saturated at maxDelay
  processingMessages,  \* MessageQueue.processingMessages
  loops,               \* suspended processQueue activations
  nextId,              \* the next uuid
  \* WhatsAppService
  sock,                \* "none" | "connecting" | "open" | "closed"
  isConnected,
  isAuthenticated,
  qrCode,              \* 0: absent, n > 0: the data URL of the n-th challenge
  qrCodeTimeout,       \* 0: no timer pending, n > 0: the timer set for challenge n
  reconnectTimeout,    \* 0: no timer pending, d > 0: pending with delay d
  reconnectAttempts,
  waProcessingMessages,\* WhatsAppService.processingMessages
  sendCalls,           \* sendMessage() calls suspended in await sock.sendMessage
  listeners,           \* number of 'sendMessage' listeners on the service
  qrTimers,            \* challenge-expiry timers not yet fired or cleared
  reconnectTimers,     \* reconnect timers (by delay) not yet fired or cleared
  qrPending,           \* handleQRCode calls suspended in await QRCode.toDataURL
  nextQr,              \* the next challenge the transport issues
  booted,              \* index.ts has called initializeApp()
  logoutCall,          \* 0, or the socket (by number) whose logout() is awaited
  throwPoints,         \* where the queue's synchronous listeners may throw
  \* the web page (public/js/app.js)
  ui,                  \* isSubmitting, the fetches awaited, the last toast
  \* observations
  ev,                  \* events emitted so far, per record id
  obs                  \* what the last handler did (connection side)

vars == <<queue, isProcessing, elapsed, processingMessages, loops, nextId,
          sock, isConnected, isAuthenticated, qrCode, qrCodeTimeout,
          reconnectTimeout, reconnectAttempts, waProcessingMessages,
          sendCalls, listeners, qrTimers, reconnectTimers, qrPending, nextQr,
          booted, logoutCall, throwPoints, ui, ev, obs>>

queueVars == <<queue, isProcessing, elapsed, processingMessages, loops, nextId,
               waProcessingMessages, sendCalls, throwPoints, ev>>
linkVars == <<sock, isConnected, isAuthenticated, qrCode, qrCodeTimeout,
              reconnectTimeout, reconnectAttempts, listeners, qrTimers,
              qrPending, nextQr, booted, reconnectTimers, logoutCall, obs>>
connVars == <<sock, isConnected, isAuthenticated, qrCode, qrCodeTimeout,
              reconnectTimeout, reconnectAttempts, listeners, qrTimers,
              qrPending, nextQr, booted, reconnectTimers, logoutCall, obs,
              ui>>

\* ------------------------------------------------------------ data
NoItem == [id |-> 0, phoneOk |-> FALSE, status |-> "none", retryCount |-> 0]
IdleLoop == [pc |-> "none", item |-> NoItem, timer |-> 0]
\* a processQueue() whose promise rejected: the catch block's own
\* emit('messageFailed') threw (line 114), past lines 120-121
RejectedLoop == [pc |-> "rejected", item |-> NoItem, timer |-> 0]

NewItem(id, phoneOk) ==
  [id |-> id, phoneOk |-> phoneOk, status |-> "pending", retryCount |-> 0]

Zero == [i \in Ids |-> 0]
NoEvents ==
  [messageSending |-> Zero,   \* queue 'messageSending' (dispatchStarted)
   sendMessage    |-> Zero,   \* queue 'sendMessage' (hand-off to the adapter)
   sockSend       |-> Zero,   \* sock.sendMessage invocations
   delivered      |-> Zero,   \* service 'messageSent' -> io 'messageSent'
   failed         |-> Zero,   \* service 'messageFailed' -> io 'messageFailed'
   notConnected   |-> Zero,   \* of those, the 'WhatsApp not connected' ones
   queueSent      |-> Zero,   \* queue 'messageSent'
   queueFailed    |-> Zero]   \* queue 'messageFailed' (permanentlyFailed)

SeqRemoveAt(s, i) == SubSeq(s, 1, i - 1) \o SubSeq(s, i + 1, Len(s))
SeqFilter(s, id) == SelectSeq(s, LAMBDA x : x.id # id)
InQueue(q, id) == \E i \in 1..Len(q) : q[i].id = id
IndexOf(q, id) == CHOOSE i \in 1..Len(q) : q[i].id = id /\ \A j \in 1..(i - 1) : q[j].id # id

\* ------------------------------------------------------------------------
\* The handlers below are pure: they map a machine record m to the machine
\* after the handler.  m holds the fields the send path reads and writes:
\*   queue, isProcessing, elapsed, processingMessages   (MessageQueue)
\*   waProcessingMessages, sendCalls                    (WhatsAppService)
\*   sockSet, isAuthenticated, listeners                (read only)
\*   ev                                                 (events emitted)
\*   loop                                               (the running loop)
\* ------------------------------------------------------------------------

Bump(e, field, id) == [e EXCEPT ![field][id] = @ + 1]

\* markAsSent without the clean-up of its not-found branch (line 139)
markAsSentKeepsInFlight(m, id) ==
  IF InQueue(m.queue, id)
  THEN [m EXCEPT !.queue = SeqFilter(@, id),
                 !.processingMessages = @ \ {id},
                 !.ev = Bump(@, "queueSent", id)]
  ELSE m

\* MessageQueue.markAsSent
markAsSent(m, id) ==
  IF InQueue(m.queue, id)
  THEN [m EXCEPT !.queue = SeqFilter(@, id),
                 !.processingMessages = @ \ {id},
                 !.ev = Bump(@, "queueSent", id)]
  ELSE [m EXCEPT !.processingMessages = @ \ {id}]

\* MessageQueue.markAsFailed
markAsFailed(m, id) ==
  IF InQueue(m.queue, id)
  THEN LET i  == IndexOf(m.queue, id)
           rc == m.queue[i].retryCount + 1
       IN IF rc >= retryLimit
          THEN [m EXCEPT !.queue = SeqFilter(@, id),
                         !.processingMessages = @ \ {id},
                         !.ev = Bump(@, "queueFailed", id)]
          ELSE [m EXCEPT !.queue[i].status = "pending",
                         !.queue[i].retryCount = rc,
                         !.processingMessages = @ \ {id}]
  ELSE [m EXCEPT !.processingMessages = @ \ {id}]

\* index.ts: whatsappService.on('messageSent') -> markAsSent, io.emit
onMessageSent(m, id) ==
  LET m1 == markAsSent(m, id) IN [m1 EXCEPT !.ev = Bump(@, "delivered", id)]

\* index.ts: whatsappService.on('messageFailed') -> markAsFailed, io.emit
onMessageFailed(m, id) ==
  LET m1 == markAsFailed(m, id) IN [m1 EXCEPT !.ev = Bump(@, "failed", id)]

\* sendMessage without the readiness test of line 618
sendMessageNoReadyCheck(m, item) ==
  IF item.id \in m.waProcessingMessages
  THEN m
  ELSE IF ~item.phoneOk
  THEN LET m1 == markAsFailed(m, item.id) IN [m1 EXCEPT !.ev = Bump(@, "failed", item.id)]
  ELSE [m EXCEPT !.waProcessingMessages = @ \cup {item.id},
                 !.sendCalls = @ \cup {item},
                 !.ev = Bump(@, "sockSend", item.id)]

\* sendMessage testing the socket only, not state.isAuthenticated
sendMessageChecksSocketOnly(m, item) ==
  IF ~m.sockSet
  THEN LET m1 == markAsFailed(m, item.id)
       IN [m1 EXCEPT !.ev = Bump(Bump(@, "failed", item.id), "notConnected", item.id)]
  ELSE sendMessageNoReadyCheck(m, item)

\* sendMessage without the in-flight test of lines 623-627
sendMessageNoGuard(m, item) ==
  IF ~m.sockSet \/ ~m.isAuthenticated
  THEN LET m1 == onMessageFailed(m, item.id)
       IN [m1 EXCEPT !.ev = Bump(@, "notConnected", item.id)]
  ELSE IF ~item.phoneOk
  THEN onMessageFailed(m, item.id)
  ELSE [m EXCEPT !.waProcessingMessages = @ \cup {item.id},
                 !.sendCalls = @ \cup {item},
                 !.ev = Bump(@, "sockSend", item.id)]

\* WhatsAppService.sendMessage up to its first await (no media attached):
\* fail fast when not ready, skip when already in flight, fail on a number
\* formatForWhatsApp rejects, else call sock.sendMessage and suspend.
sendMessage(m, item) ==
  IF ~m.sockSet \/ ~m.isAuthenticated
  THEN LET m1 == onMessageFailed(m, item.id)
       IN [m1 EXCEPT !.ev = Bump(@, "notConnected", item.id)]
  ELSE IF item.id \in m.waProcessingMessages
  THEN m
  ELSE IF ~item.phoneOk
  THEN onMessageFailed(m, item.id)
  ELSE [m EXCEPT !.waProcessingMessages = @ \cup {item.id},
                 !.sendCalls = @ \cup {item},
                 !.ev = Bump(@, "sockSend", item.id)]

\* index.ts: messageQueue.on('sendMessage') -> whatsappService.emit, which
\* runs every listener initialize() has registered, in order.
RECURSIVE emitSendMessage(_, _, _)
emitSendMessage(m, item, k) ==
  IF k = 0 THEN m ELSE emitSendMessage(sendMessage(m, item), item, k - 1)

\* the dequeue taking the last eligible record instead of the first
pendingIndexLast(q, proc) ==
  LET ok == {i \in 1..Len(q) : q[i].status = "pending" /\ q[i].id \notin proc}
  IN IF ok = {} THEN 0 ELSE CHOOSE i \in ok : \A j \in ok : i >= j

\* processQueue, line 59: the first pending record not marked in flight
pendingIndex(q, proc) ==
  LET ok == {i \in 1..Len(q) : q[i].status = "pending" /\ q[i].id \notin proc}
  IN IF ok = {} THEN 0 ELSE CHOOSE i \in ok : \A j \in ok : i <= j

\* the delay without the time already elapsed since the last hand-off
actualDelayIgnoresElapsed(randomDelay, timeSinceLastSend) ==
  Max(0, randomDelay)

\* processQueue, lines 79-84
actualDelay(randomDelay, timeSinceLastSend) ==
  Max(0, randomDelay - timeSinceLastSend)

\* the catch block re-queueing the record as it is, status 'sending'
catchBlockKeepsStatus(m, item) ==
  LET failedItem == [item EXCEPT !.retryCount = @ + 1]
      m1 == [m EXCEPT !.processingMessages = @ \ {item.id}]
  IN IF failedItem.retryCount < retryLimit
     THEN [m1 EXCEPT !.queue = Append(@, failedItem)]
     ELSE [m1 EXCEPT !.ev = Bump(@, "queueFailed", item.id)]

\* the catch block without the reset of line 108: the record goes back as
\* 'failed'
catchBlockRequeuesFailed(m, item) ==
  LET failedItem == [item EXCEPT !.status = "failed", !.retryCount = @ + 1]
      m1 == [m EXCEPT !.processingMessages = @ \ {item.id}]
  IN IF failedItem.retryCount < retryLimit
     THEN [m1 EXCEPT !.queue = Append(@, failedItem)]
     ELSE [m1 EXCEPT !.ev = Bump(@, "queueFailed", item.id)]

\* the catch block with the retry test off by one (<= 3 for < 3)
catchBlockOffByOne(m, item) ==
  LET failedItem == [item EXCEPT !.status = "failed", !.retryCount = @ + 1]
      m1 == [m EXCEPT !.processingMessages = @ \ {item.id}]
  IN IF failedItem.retryCount <= retryLimit
     THEN [m1 EXCEPT !.queue = Append(@, [failedItem EXCEPT !.status = "pending"])]
     ELSE [m1 EXCEPT !.ev = Bump(@, "queueFailed", item.id)]

\* the catch block pushing the record to the store twice
catchBlockPushesTwice(m, item) ==
  LET failedItem == [item EXCEPT !.status = "failed", !.retryCount = @ + 1]
      again == [failedItem EXCEPT !.status = "pending"]
      m1 == [m EXCEPT !.processingMessages = @ \ {item.id}]
  IN IF failedItem.retryCount < retryLimit
     THEN [m1 EXCEPT !.queue = Append(Append(@, again), again)]
     ELSE [m1 EXCEPT !.ev = Bump(@, "queueFailed", item.id)]

\* the catch block emitting messageFailed at every failure
catchBlockEmitsEveryTime(m, item) ==
  LET failedItem == [item EXCEPT !.status = "failed", !.retryCount = @ + 1]
      m1 == [m EXCEPT !.processingMessages = @ \ {item.id},
                      !.ev = Bump(@, "queueFailed", item.id)]
  IN IF failedItem.retryCount < retryLimit
     THEN [m1 EXCEPT !.queue = Append(@, [failedItem EXCEPT !.status = "pending"])]
     ELSE m1

\* the catch block without line 106: the id stays in the in-flight set
catchBlockKeepsInFlight(m, item) ==
  LET failedItem == [item EXCEPT !.status = "failed", !.retryCount = @ + 1]
  IN IF failedItem.retryCount < retryLimit
     THEN [m EXCEPT !.queue = Append(@, [failedItem EXCEPT !.status = "pending"])]
     ELSE [m EXCEPT !.ev = Bump(@, "queueFailed", item.id)]

\* processQueue, lines 102-118: the catch block
catchBlock(m, item) ==
  LET failedItem == [item EXCEPT !.status = "failed", !.retryCount = @ + 1]
      m1 == [m EXCEPT !.processingMessages = @ \ {item.id}]
  IN IF failedItem.retryCount < retryLimit
     THEN [m1 EXCEPT !.queue = Append(@, [failedItem EXCEPT !.status = "pending"])]
     ELSE [m1 EXCEPT !.ev = Bump(@, "queueFailed", item.id)]

\* processQueue, lines 91-101: the hand-off, to the settle wait
emitHandOff(m, item) ==
  LET sending == [item EXCEPT !.status = "sending"]
      m1 == [m EXCEPT !.ev = Bump(Bump(@, "messageSending", item.id),
                                  "sendMessage", item.id)]
      m2 == emitSendMessage(m1, sending, m.listeners)
  IN [m2 EXCEPT !.elapsed = 0,
                !.loop = [pc |-> "settle", item |-> NoItem, timer |-> settleDelay]]

\* processQueue from the top of its while loop (iterate) or from the end of
\* the pacing wait (handOff), to its next suspension or its return: the set
\* of machines the draws of Math.random and the listeners' throws allow.
\* A throw of the 'messageSending' listener is caught; a throw of the
\* 'messageFailed' listener, called from the catch block, rejects the loop.
\* (m and item are bound in a set so that each argument is evaluated once.)
RECURSIVE iterate(_), handOff(_, _)
iterate(m0) ==
  UNION {
    LET idx == pendingIndex(m.queue, m.processingMessages) IN
    IF idx = 0
    THEN {[m EXCEPT !.isProcessing = FALSE, !.loop = IdleLoop]}
    ELSE LET item == m.queue[idx]
             m1 == [m EXCEPT !.queue = SeqRemoveAt(@, idx),
                             !.processingMessages = @ \cup {item.id}]
         IN UNION { IF d > 0
                    THEN {[m1 EXCEPT !.loop = [pc |-> "pacing", item |-> item,
                                               timer |-> d]]}
                    ELSE handOff(m1, item)
                  : d \in {actualDelay(r, m.elapsed) : r \in RandomDelays} }
  : m \in {m0} }
handOff(m0, item0) ==
  UNION { IF th = "none"
          THEN {emitHandOff(m, item)}
          ELSE UNION { iterate(caught) \cup
                       (IF /\ "messageFailed" \in m.throwPoints
                           /\ caught.ev.queueFailed[item.id] > m.ev.queueFailed[item.id]
                        THEN {[caught EXCEPT !.loop = RejectedLoop]}
                        ELSE {})
                     : caught \in {catchBlock([m EXCEPT !.ev = Bump(@, "messageSending", item.id)],
                                              [item EXCEPT !.status = "sending"])} }
        : th \in m0.throwPoints \ {"messageFailed"}, m \in {m0}, item \in {item0} }

\* ------------------------------------------------------------------------
\* MessageQueue: actions
\* ------------------------------------------------------------------------

Machine(loop) ==
  [queue |-> queue, isProcessing |-> isProcessing, elapsed |-> elapsed,
   processingMessages |-> processingMessages,
   waProcessingMessages |-> waProcessingMessages, sendCalls |-> sendCalls,
   sockSet |-> sock # "none", isAuthenticated |-> isAuthenticated,
   listeners |-> listeners, throwPoints |-> throwPoints, ev |-> ev,
   loop |-> loop]

Commit(m) ==
  /\ queue' = m.queue
  /\ isProcessing' = m.isProcessing
  /\ elapsed' = m.elapsed
  /\ processingMessages' = m.processingMessages
  /\ waProcessingMessages' = m.waProcessingMessages
  /\ sendCalls' = m.sendCalls
  /\ ev' = m.ev
  /\ UNCHANGED throwPoints

Alive == {s \in 1..MaxLoops : loops[s].pc # "none"}
FreeSlots == (1..MaxLoops) \ Alive
FirstFree == CHOOSE s \in FreeSlots : \A t \in FreeSlots : s <= t

\* MessageQueue.addMessage, with the processQueue() it starts when no loop is
\* marked running, up to that loop's first suspension.
addMessage(phoneOk) ==
  /\ nextId \in Ids
  /\ LET id == nextId
         m0 == [Machine(IdleLoop) EXCEPT !.queue = Append(@, NewItem(id, phoneOk))]
     IN IF isProcessing
        THEN Commit(m0) /\ UNCHANGED loops
        ELSE /\ FreeSlots # {}
             /\ \E m \in iterate([m0 EXCEPT !.isProcessing = TRUE]) :
                  /\ Commit(m)
                  /\ loops' = [loops EXCEPT ![FirstFree] = m.loop]
  /\ nextId' = nextId + 1

\* addMessage called directly on the queue object
AddMessage(phoneOk) ==
  /\ addMessage(phoneOk)
  /\ UNCHANGED connVars

\* processQueue resumed after `await this.delay(actualDelay)` (line 88)
PacingDone(s) ==
  /\ loops[s].pc = "pacing"
  /\ loops[s].timer = 0
  /\ \E m \in handOff(Machine(loops[s]), loops[s].item) :
       /\ Commit(m)
       /\ loops' = [loops EXCEPT ![s] = m.loop]
  /\ UNCHANGED <<nextId, connVars>>

\* the loop ending after its settle wait without looking at the store again
SettleDoneStops(s) ==
  /\ loops[s].pc = "settle"
  /\ loops[s].timer = 0
  /\ isProcessing' = FALSE
  /\ loops' = [loops EXCEPT ![s] = IdleLoop]
  /\ UNCHANGED <<queue, elapsed, processingMessages, nextId,
                 waProcessingMessages, sendCalls, throwPoints, ev, connVars>>

\* the loop waiting, after its settle wait, for the attempts in flight
SettleDoneAwaitsTransport(s) ==
  /\ loops[s].pc = "settle"
  /\ loops[s].timer = 0
  /\ sendCalls = {}
  /\ \E m \in iterate(Machine(loops[s])) :
       /\ Commit(m)
       /\ loops' = [loops EXCEPT ![s] = m.loop]
  /\ UNCHANGED <<nextId, connVars>>

\* processQueue resumed after `await this.delay(100)` (line 101)
SettleDone(s) ==
  /\ loops[s].pc = "settle"
  /\ loops[s].timer = 0
  /\ \E m \in iterate(Machine(loops[s])) :
       /\ Commit(m)
       /\ loops' = [loops EXCEPT ![s] = m.loop]
  /\ UNCHANGED <<nextId, connVars>>

\* WhatsAppService.sendMessage resumed after `await this.sock.sendMessage`
\* (lines 659-693): the socket acknowledged (ok) or the send failed.
SendResult(id, ok) ==
  /\ \E c \in sendCalls :
       /\ c.id = id
       /\ LET m0 == Machine(IdleLoop)
              m1 == IF ok THEN onMessageSent(m0, id) ELSE onMessageFailed(m0, id)
              m2 == [m1 EXCEPT !.waProcessingMessages = @ \ {id},
                               !.sendCalls = @ \ {c}]
          IN Commit(m2)
  /\ UNCHANGED <<loops, nextId, connVars>>

\* MessageQueue.clear
Clear ==
  /\ queue' = <<>>
  /\ isProcessing' = FALSE
  /\ processingMessages' = {}
  /\ UNCHANGED <<elapsed, loops, nextId, waProcessingMessages, sendCalls,
                 throwPoints, ev, connVars>>

\* index.ts on SIGINT or SIGTERM: whatsappService.cleanup(), then
\* messageQueue.clear(); the process exits only once server.close() has
\* seen every connection end, so suspended loops and sends still resume.
Shutdown ==
  /\ qrTimers' = qrTimers \ {qrCodeTimeout}
  /\ reconnectTimeout' = 0
  /\ reconnectTimers' = reconnectTimers \ {reconnectTimeout}
  /\ waProcessingMessages' = {}
  /\ queue' = <<>>
  /\ isProcessing' = FALSE
  /\ processingMessages' = {}
  /\ obs' = [handler |-> "shutdown", cause |-> "", stateChange |-> FALSE,
             scheduled |-> 0, closes |-> obs.closes, delays |-> obs.delays,
             response |-> 0]
  /\ UNCHANGED <<elapsed, loops, nextId, sendCalls, throwPoints, ev, sock,
                 isConnected, isAuthenticated, qrCode, qrCodeTimeout,
                 reconnectAttempts, listeners, qrPending, nextQr, booted, ui,
                 logoutCall>>

\* Time passes by d, never beyond the expiry of a pending delay().
Timers == {loops[s].timer : s \in Alive}
NextExpiry == CHOOSE t \in Timers : \A u \in Timers : t <= u
TickSteps ==
  IF Alive = {} THEN (IF elapsed < maxDelay THEN {minDelay, maxDelay} ELSE {})
  ELSE {NextExpiry} \ {0}
Tick(d) ==
  /\ elapsed' = Min(elapsed + d, maxDelay)
  /\ loops' = [s \in 1..MaxLoops |->
                 IF s \in Alive THEN [loops[s] EXCEPT !.timer = @ - d] ELSE loops[s]]
  /\ UNCHANGED <<queue, isProcessing, processingMessages, nextId,
                 waProcessingMessages, sendCalls, throwPoints, ev, connVars>>

\* ------------------------------------------------------------------------
\* WhatsAppService: the connection manager
\* ------------------------------------------------------------------------

\* lastDisconnect.error as the close handler reads it: the Boom status code
\* and whether its message, payload or JSON text names a conflict.
Causes ==
  { [name |-> "loggedOut", statusCode |-> 401, conflictText |-> FALSE],
    [name |-> "conflict",  statusCode |-> 440, conflictText |-> TRUE],
    [name |-> "generic",   statusCode |-> 428, conflictText |-> FALSE] }

\* connection.update, line 542-543
shouldReconnect(c) == c.statusCode # loggedOut
\* connection.update, lines 550-554
isConflict(c) == c.conflictText

\* the page as loaded
NoUi == [isSubmitting |-> FALSE, requests |-> {}, nextReq |-> 1, toast |-> "none"]

NoObs == [handler |-> "none", cause |-> "", stateChange |-> FALSE,
          scheduled |-> 0, closes |-> 0, delays |-> <<>>, response |-> 0]
Saw(handler, cause, emitted, scheduled) ==
  [obs EXCEPT !.handler = handler, !.cause = cause, !.stateChange = emitted,
              !.scheduled = scheduled, !.response = 0]

\* scheduleReconnect, line 790
reconnectDelay(attempts) == Min(reconnectStep * attempts, reconnectCap)

\* the reconnect decision without the conflict test of lines 556-560
reconnectsDespiteConflict(c, attempts) ==
  shouldReconnect(c) /\ attempts < maxReconnectAttempts

\* the reconnect decision with the cap off by one (<= 10 for < 10)
reconnectsOffByOne(c, attempts) ==
  ~isConflict(c) /\ shouldReconnect(c) /\ attempts <= maxReconnectAttempts

\* the reconnect decision without the logged-out test of lines 542-543
reconnectsDespiteLoggedOut(c, attempts) ==
  ~isConflict(c) /\ attempts < maxReconnectAttempts

\* connection.update, line 564: whether this close schedules a reconnect
reconnects(c, attempts) ==
  ~isConflict(c) /\ shouldReconnect(c) /\ attempts < maxReconnectAttempts

\* WhatsAppService.initialize: ok, a socket is made and one more
\* 'sendMessage' listener registered; not ok, it throws before the socket.
initialize(ok) ==
  IF ok
  THEN sock' = "connecting" /\ listeners' = listeners + 1
  ELSE UNCHANGED <<sock, listeners>>

\* index.ts: initializeApp(), once, when the server listens
InitializeApp(ok) ==
  /\ ~booted
  /\ booted' = TRUE
  /\ initialize(ok)
  /\ obs' = Saw("initialize", "", FALSE, 0)
  /\ UNCHANGED <<isConnected, isAuthenticated, qrCode, qrCodeTimeout,
                 reconnectTimeout, reconnectAttempts, qrTimers, qrPending,
                 nextQr, queueVars, ui, logoutCall,
                 reconnectTimers>>

\* the timer set by scheduleReconnect fires (lines 792-799)
ReconnectFire(ok) ==
  /\ reconnectTimeout > 0
  /\ reconnectTimeout' = 0
  /\ reconnectTimers' = reconnectTimers \ {reconnectTimeout}
  /\ initialize(ok)
  /\ obs' = Saw("reconnect", "", FALSE, 0)
  /\ UNCHANGED <<isConnected, isAuthenticated, qrCode, qrCodeTimeout,
                 reconnectAttempts, qrTimers, qrPending, nextQr, booted,
                 queueVars, ui, logoutCall>>

\* connection.update with a qr: handleQRCode up to `await QRCode.toDataURL`
QrIssued ==
  /\ sock = "connecting"
  /\ nextQr <= MaxQr
  /\ qrTimers' = qrTimers \ {qrCodeTimeout}
  /\ qrPending' = qrPending \cup {nextQr}
  /\ nextQr' = nextQr + 1
  /\ obs' = Saw("qr", "", FALSE, 0)
  /\ UNCHANGED <<sock, isConnected, isAuthenticated, qrCode, qrCodeTimeout,
                 reconnectTimeout, reconnectAttempts, listeners, booted,
                 queueVars, ui, logoutCall,
                 reconnectTimers>>

\* handleQRCode resumed (lines 596-611): the data URL is stored and the
\* 2-minute timer set, or toDataURL threw and the error is logged.
QrEncoded(n, ok) ==
  /\ n \in qrPending
  /\ qrPending' = qrPending \ {n}
  /\ IF ok
     THEN /\ qrCode' = n
          /\ qrCodeTimeout' = n
          /\ qrTimers' = qrTimers \cup {n}
          /\ obs' = Saw("qrEncoded", "", TRUE, 0)
     ELSE /\ UNCHANGED <<qrCode, qrCodeTimeout, qrTimers>>
          /\ obs' = Saw("qrEncoded", "", FALSE, 0)
  /\ UNCHANGED <<sock, isConnected, isAuthenticated, reconnectTimeout,
                 reconnectAttempts, listeners, nextQr, booted, queueVars, ui, logoutCall,
                 reconnectTimers>>

\* the expiry callback cancelling a pending reconnect as well
QrExpireCancelsReconnect(n) ==
  /\ n \in qrTimers
  /\ qrTimers' = qrTimers \ {n}
  /\ qrCode' = 0
  /\ reconnectTimeout' = 0
  /\ reconnectTimers' = reconnectTimers \ {reconnectTimeout}
  /\ obs' = Saw("qrExpire", "", TRUE, 0)
  /\ UNCHANGED <<sock, isConnected, isAuthenticated, qrCodeTimeout,
                 reconnectAttempts, listeners, qrPending,
                 nextQr, booted, queueVars, ui, logoutCall>>

\* the 2-minute timer of challenge n fires (lines 604-608)
QrExpire(n) ==
  /\ n \in qrTimers
  /\ qrTimers' = qrTimers \ {n}
  /\ qrCode' = 0
  /\ obs' = Saw("qrExpire", "", TRUE, 0)
  /\ UNCHANGED <<sock, isConnected, isAuthenticated, qrCodeTimeout,
                 reconnectTimeout, reconnectAttempts, listeners, qrPending,
                 nextQr, booted, queueVars, ui, logoutCall,
                 reconnectTimers>>

\* the 'open' branch without the reset of line 537
ConnectionOpenKeepsAttempts ==
  /\ sock = "connecting"
  /\ sock' = "open"
  /\ isConnected' = TRUE
  /\ isAuthenticated' = TRUE
  /\ obs' = [Saw("open", "", TRUE, 0) EXCEPT !.closes = 0, !.delays = <<>>]
  /\ UNCHANGED <<reconnectAttempts, qrCode, qrCodeTimeout, reconnectTimeout,
                 listeners, qrTimers, qrPending, nextQr, booted, queueVars, ui, logoutCall,
                 reconnectTimers>>

\* the 'open' branch without the assignment of line 535
ConnectionOpenConnectedOnly ==
  /\ sock = "connecting"
  /\ sock' = "open"
  /\ isConnected' = TRUE
  /\ reconnectAttempts' = 0
  /\ obs' = [Saw("open", "", TRUE, 0) EXCEPT !.closes = 0, !.delays = <<>>]
  /\ UNCHANGED <<isAuthenticated, qrCode, qrCodeTimeout, reconnectTimeout,
                 listeners, qrTimers, qrPending, nextQr, booted, queueVars, ui,
                 logoutCall, reconnectTimers>>

\* connection.update with connection === 'open' (lines 533-540)
ConnectionOpen ==
  /\ sock = "connecting"
  /\ sock' = "open"
  /\ isConnected' = TRUE
  /\ isAuthenticated' = TRUE
  /\ reconnectAttempts' = 0
  /\ obs' = [Saw("open", "", TRUE, 0) EXCEPT !.closes = 0, !.delays = <<>>]
  /\ UNCHANGED <<qrCode, qrCodeTimeout, reconnectTimeout, listeners, qrTimers,
                 qrPending, nextQr, booted, queueVars, ui, logoutCall,
                 reconnectTimers>>

\* scheduleReconnect without the clearTimeout of lines 785-787
scheduleReconnectKeepsTimer(timers, stored, delay) ==
  timers \cup {delay}

\* scheduleReconnect (lines 784-800), on the timers pending: the stored handle
\* is cleared, the new timer is set
scheduleReconnect(timers, stored, delay) ==
  (timers \ {stored}) \cup {delay}

\* connection.update with connection === 'close' (lines 541-569), with the
\* scheduleReconnect() it may call (lines 784-800)
onClose(c) ==
  /\ sock' = "closed"
  /\ isConnected' = FALSE
  /\ isAuthenticated' = FALSE
  /\ IF reconnects(c, reconnectAttempts)
     THEN /\ reconnectAttempts' = reconnectAttempts + 1
          /\ reconnectTimeout' = reconnectDelay(reconnectAttempts + 1)
          /\ reconnectTimers' =
               scheduleReconnect(reconnectTimers, reconnectTimeout,
                                 reconnectDelay(reconnectAttempts + 1))
          /\ obs' = [Saw("close", c.name, TRUE, reconnectDelay(reconnectAttempts + 1))
                       EXCEPT !.closes = @ + 1,
                              !.delays = Append(@, reconnectDelay(reconnectAttempts + 1))]
     ELSE /\ UNCHANGED <<reconnectAttempts, reconnectTimeout, reconnectTimers>>
          /\ obs' = [Saw("close", c.name, TRUE, 0)
                       EXCEPT !.closes = IF c.name = "generic" THEN @ + 1 ELSE @]
  /\ UNCHANGED <<qrCode, qrCodeTimeout, listeners, qrTimers, qrPending,
                 nextQr, booted, queueVars, ui, logoutCall>>

\* the socket reports that its connection closed
ConnectionClose(c) ==
  /\ sock \in {"connecting", "open"}
  /\ onClose(c)

\* a socket that already reported a close reports another one before any
\* new socket is made: the handler runs again
ConnectionCloseAgain(c) ==
  /\ sock = "closed"
  /\ onClose(c)

\* logout() after line 816: flags cleared, challenge deleted, stateChange
\* emitted, the two stored timer handles cleared (lines 818-829)
logoutBody ==
  /\ isConnected' = FALSE
  /\ isAuthenticated' = FALSE
  /\ qrCode' = 0
  /\ qrTimers' = qrTimers \ {qrCodeTimeout}
  /\ reconnectTimeout' = 0
  /\ reconnectTimers' = reconnectTimers \ {reconnectTimeout}

\* logout() with no socket yet (line 814 false): it runs to its end at once
LogoutNoSocket ==
  /\ sock = "none"
  /\ logoutCall = 0
  /\ logoutBody
  /\ obs' = Saw("logout", "noSocket", TRUE, 0)
  /\ UNCHANGED <<sock, logoutCall, qrCodeTimeout, reconnectAttempts,
                 listeners, qrPending, nextQr, booted, queueVars, ui>>

\* logout() up to `await this.sock.logout()` (lines 812-815)
LogoutStart ==
  /\ sock # "none"
  /\ logoutCall = 0
  /\ logoutCall' = listeners
  /\ obs' = Saw("logout", "awaiting", FALSE, 0)
  /\ UNCHANGED <<sock, isConnected, isAuthenticated, qrCode, qrCodeTimeout,
                 reconnectTimeout, reconnectAttempts, listeners, qrTimers,
                 reconnectTimers, qrPending, nextQr, booted, queueVars, ui>>

\* logout() resumed. The transport's logout resolved: it has ended its
\* socket with the loggedOut reason, for which the close handler clears the
\* flags and schedules nothing, and lines 818-831 run. Or it rejected, and
\* the catch block only logs (lines 832-834).
LogoutDone(ok) ==
  /\ logoutCall > 0
  /\ logoutCall' = 0
  /\ IF ok
     THEN /\ logoutBody
          /\ obs' = Saw("logout", "done", TRUE, 0)
          /\ sock' = IF logoutCall = listeners /\ sock \in {"connecting", "open"}
                     THEN "closed" ELSE sock
     ELSE /\ obs' = Saw("logout", "failed", FALSE, 0)
          /\ UNCHANGED <<sock, isConnected, isAuthenticated, qrCode, qrTimers,
                         reconnectTimeout, reconnectTimers>>
  /\ UNCHANGED <<qrCodeTimeout, reconnectAttempts, listeners, qrPending,
                 nextQr, booted, queueVars, ui>>

\* ------------------------------------------------------------------------
\* The router: the two send endpoints and the address validator
\* ------------------------------------------------------------------------

\* A phone number as the validator sees it: a leading '+', a country code
\* written out, a trunk '0', and the class of the national number: a valid
\* Saudi one (9 digits), a valid Egyptian one (10), a valid US one (10), or
\* digits that are no number anywhere (4).
Nationals == {"sa", "eg", "us", "bad"}
NoPhone == [plus |-> FALSE, cc |-> "", trunk |-> FALSE, national |-> ""]
Null == [plus |-> FALSE, cc |-> "", trunk |-> FALSE, national |-> "null"]
Phone(plus, cc, trunk, national) ==
  [plus |-> plus, cc |-> cc, trunk |-> trunk, national |-> national]
\* the numbers clients send: +9665..., +201..., 05..., 5... (9 digits),
\* 9665..., a US number in E.164, the same without its prefix (10 digits),
\* +966 before digits that are no number, and loose digits
PhoneNumbers ==
  { Phone(TRUE, "966", FALSE, "sa"), Phone(TRUE, "20", FALSE, "eg"),
    Phone(FALSE, "", TRUE, "sa"), Phone(FALSE, "", FALSE, "sa"),
    Phone(FALSE, "966", FALSE, "sa"),
    Phone(TRUE, "1", FALSE, "us"), Phone(FALSE, "", FALSE, "us"),
    Phone(TRUE, "966", FALSE, "bad"), Phone(FALSE, "", FALSE, "bad") }

\* cleaned.length, the '+' apart
cleanedLength(p) ==
  (CASE p.cc = "966" -> 3 [] p.cc = "20" -> 2 [] p.cc = "1" -> 1 [] OTHER -> 0)
  + (IF p.trunk THEN 1 ELSE 0)
  + (CASE p.national = "sa" -> 9 [] p.national = "eg" -> 10
       [] p.national = "us" -> 10 [] OTHER -> 4)

\* PhoneNumberUtil.generatePossibleFormats: the candidates, in order, each
\* an international number [cc, national]
generatePossibleFormats(p) ==
  LET format(c, n) == <<[cc |-> c, national |-> n]>>
      rest == IF p.cc = "" THEN p.national ELSE "bad"
      asIs == IF p.plus THEN format(p.cc, p.national) ELSE <<>>
      saudi ==
        IF p.trunk THEN format("966", p.national)
        ELSE IF ~p.plus /\ p.cc = "966" THEN format("966", p.national)
        ELSE IF ~p.plus /\ cleanedLength(p) = 9 THEN format("966", rest)
        ELSE <<>>
      egyptian ==
        IF p.trunk THEN format("20", p.national)
        ELSE IF ~p.plus /\ p.cc = "20" THEN format("20", p.national)
        ELSE IF ~p.plus /\ cleanedLength(p) = 10 THEN format("20", rest)
        ELSE <<>>
  IN asIs \o saudi \o egyptian

\* libphonenumber's isValidPhoneNumber and parsed.country on a candidate
isValidPhoneNumber(f) ==
  \/ f.cc = "966" /\ f.national = "sa"
  \/ f.cc = "20" /\ f.national = "eg"
  \/ f.cc = "1" /\ f.national = "us"
country(f) ==
  CASE f.cc = "966" -> "SA" [] f.cc = "20" -> "EG" [] OTHER -> "US"

\* PhoneNumberUtil.parseSaudiOrEgyptianNumber: the E.164 form of the first
\* valid Saudi or Egyptian candidate, or null
parseSaudiOrEgyptianNumber(p) ==
  LET formats == generatePossibleFormats(p)
      good == {i \in DOMAIN formats :
                 isValidPhoneNumber(formats[i]) /\ country(formats[i]) \in {"SA", "EG"}}
  IN IF good = {}
     THEN Null
     ELSE LET f == formats[CHOOSE i \in good : \A j \in good : i <= j]
          IN [plus |-> TRUE, cc |-> f.cc, trunk |-> FALSE, national |-> f.national]

\* PhoneNumberUtil.formatForWhatsApp: the jid of the number, or null
formatForWhatsApp(p) ==
  LET parsed == parseSaudiOrEgyptianNumber(p)
  IN IF parsed = Null THEN Null ELSE [parsed EXCEPT !.plus = FALSE]

SendEndpoints == {"/send-message", "/send-message-direct"}

\* the route handler with the validator's verdict ignored
sendRouteSkipsValidator(endpoint, phoneNumber, hasMessage, authenticated) ==
  IF phoneNumber = NoPhone \/ (endpoint = "/send-message" /\ ~hasMessage)
  THEN [status |-> 400, destination |-> Null]
  ELSE IF ~authenticated
       THEN [status |-> 503, destination |-> Null]
       ELSE [status |-> 200, destination |-> phoneNumber]

\* the route handler without the isAuthenticated gate
sendRouteNoAuthGate(endpoint, phoneNumber, hasMessage, authenticated) ==
  IF phoneNumber = NoPhone \/ (endpoint = "/send-message" /\ ~hasMessage)
  THEN [status |-> 400, destination |-> Null]
  ELSE LET validPhoneNumber == parseSaudiOrEgyptianNumber(phoneNumber)
       IN IF validPhoneNumber = Null
          THEN [status |-> 400, destination |-> Null]
          ELSE [status |-> 200, destination |-> validPhoneNumber]

\* router.post('/send-message') and router.post('/send-message-direct') up
\* to addMessage: the response status and the destination to enqueue
sendRoute(endpoint, phoneNumber, hasMessage, authenticated) ==
  IF phoneNumber = NoPhone \/ (endpoint = "/send-message" /\ ~hasMessage)
  THEN [status |-> 400, destination |-> Null]
  ELSE LET validPhoneNumber == parseSaudiOrEgyptianNumber(phoneNumber)
       IN IF validPhoneNumber = Null
          THEN [status |-> 400, destination |-> Null]
          ELSE IF ~authenticated
               THEN [status |-> 503, destination |-> Null]
               ELSE [status |-> 200, destination |-> validPhoneNumber]

\* one request to a send endpoint, answered; an accepted one enqueues its
\* record, whose destination the adapter will format again when it sends
postSend(endpoint, phoneNumber, hasMessage) ==
  LET r == sendRoute(endpoint, phoneNumber, hasMessage, isAuthenticated)
  IN /\ obs' = [Saw(endpoint, "", FALSE, 0) EXCEPT !.response = r.status]
     /\ IF r.status = 200
        THEN addMessage(formatForWhatsApp(r.destination) # Null)
        ELSE UNCHANGED queueVars
     /\ UNCHANGED <<sock, isConnected, isAuthenticated, qrCode, qrCodeTimeout,
                    reconnectTimeout, reconnectAttempts, listeners, qrTimers,
                    qrPending, nextQr, booted, reconnectTimers, logoutCall>>

\* a request from a client other than the web page
PostSend(endpoint, phoneNumber, hasMessage) ==
  /\ postSend(endpoint, phoneNumber, hasMessage)
  /\ UNCHANGED ui

\* ------------------------------------------------------------------------
\* The web page: the send form
\* ------------------------------------------------------------------------

\* a fetch('/api/send-message') the page awaits: on its way to the server
\* ("sent"), answered with the response on its way back ("answered"), or
\* resolved with response.json() awaited ("json")
Request(n, phoneNumber, hasMessage) ==
  [n |-> n, phoneNumber |-> phoneNumber, hasMessage |-> hasMessage,
   stage |-> "sent", status |-> 0]

\* handleFormSubmit without the isSubmitting test of lines 95-98
handleFormSubmitUnguarded(u, phoneNumber, hasMessage) ==
  IF phoneNumber = NoPhone \/ ~hasMessage
  THEN [u EXCEPT !.toast = "required"]
  ELSE [u EXCEPT !.isSubmitting = TRUE,
                 !.requests = @ \cup {Request(u.nextReq, phoneNumber, hasMessage)},
                 !.nextReq = @ + 1]

\* handleFormSubmit up to `await fetch` (lines 91-121)
handleFormSubmit(u, phoneNumber, hasMessage) ==
  IF u.isSubmitting
  THEN [u EXCEPT !.toast = "wait"]
  ELSE IF phoneNumber = NoPhone \/ ~hasMessage
       THEN [u EXCEPT !.toast = "required"]
       ELSE [u EXCEPT !.isSubmitting = TRUE,
                      !.requests = @ \cup {Request(u.nextReq, phoneNumber, hasMessage)},
                      !.nextReq = @ + 1]

\* handleFormSubmit from the toast of its try or catch branch through the
\* finally block (lines 127-148)
finally(u, r, toast) ==
  [u EXCEPT !.toast = toast, !.isSubmitting = FALSE, !.requests = @ \ {r}]

\* the form's submit event
Submit(phoneNumber, hasMessage) ==
  /\ ui' = handleFormSubmit(ui, phoneNumber, hasMessage)
  /\ UNCHANGED <<queueVars, linkVars>>

\* the server handles a request of the page
ServeUi(r) ==
  /\ r \in ui.requests
  /\ r.stage = "sent"
  /\ postSend("/send-message", r.phoneNumber, r.hasMessage)
  /\ ui' = [ui EXCEPT !.requests = (@ \ {r}) \cup
               {[r EXCEPT !.stage = "answered",
                          !.status = sendRoute("/send-message", r.phoneNumber,
                                               r.hasMessage, isAuthenticated).status]}]

\* fetch rejects (the network failed, before or after the server handled
\* the request): the catch block, then finally
FetchRejects(r) ==
  /\ r \in ui.requests
  /\ r.stage \in {"sent", "answered"}
  /\ ui' = finally(ui, r, "failed")
  /\ UNCHANGED <<queueVars, linkVars>>

\* fetch resolves: handleFormSubmit goes on to `await response.json()`
FetchResolves(r) ==
  /\ r \in ui.requests
  /\ r.stage = "answered"
  /\ ui' = [ui EXCEPT !.requests = (@ \ {r}) \cup {[r EXCEPT !.stage = "json"]}]
  /\ UNCHANGED <<queueVars, linkVars>>

\* response.json() settles: the body parsed and the result was shown (ok),
\* or parsing or showing threw and the catch block ran; then finally
JsonSettles(r, ok) ==
  /\ r \in ui.requests
  /\ r.stage = "json"
  /\ ui' = finally(ui, r, IF ~ok THEN "failed"
                          ELSE IF r.status = 200 THEN "queued" ELSE "error")
  /\ UNCHANGED <<queueVars, linkVars>>

\* ------------------------------------------------------------------------
\* Specifications
\* ------------------------------------------------------------------------

\* The state after construction, given where the listeners index.ts attaches
\* to the queue may throw.
Boot(points) ==
  /\ queue = <<>>
  /\ isProcessing = FALSE
  /\ elapsed = maxDelay            \* lastSendTime = 0: the epoch is long ago
  /\ processingMessages = {}
  /\ loops = [s \in 1..MaxLoops |-> IdleLoop]
  /\ nextId = 1
  /\ sock = "none"
  /\ isConnected = FALSE
  /\ isAuthenticated = FALSE
  /\ qrCode = 0
  /\ qrCodeTimeout = 0
  /\ reconnectTimeout = 0
  /\ reconnectTimers = {}
  /\ reconnectAttempts = 0
  /\ waProcessingMessages = {}
  /\ sendCalls = {}
  /\ listeners = 0
  /\ qrTimers = {}
  /\ qrPending = {}
  /\ nextQr = 1
  /\ booted = FALSE
  /\ logoutCall = 0
  /\ ev = NoEvents
  /\ obs = NoObs
  /\ throwPoints = points
  /\ ui = NoUi

\* The listener of 'messageSending' (a log line and io.emit) may throw; the
\* listener of 'messageFailed' does not.
Init == Boot(ThrowPoints)

\* Any synchronous listener of the queue may throw.
InitObserved == Boot(ThrowPoints \cup {"messageFailed"})

\* The connection manager's handlers; the transport issues no challenge
\* (the session is paired: credentials are in the auth folder).
LinkNext(maxInits) ==
  \/ \E ok \in BOOLEAN : listeners < maxInits /\ InitializeApp(ok)
  \/ \E ok \in BOOLEAN : listeners < maxInits /\ ReconnectFire(ok)
  \/ ConnectionOpen
  \/ \E c \in Causes : ConnectionClose(c)

\* The challenge handlers.
ChallengeNext ==
  \/ QrIssued
  \/ \E n \in 1..MaxQr, ok \in BOOLEAN : QrEncoded(n, ok)
  \/ \E n \in 1..MaxQr : QrExpire(n)

\* The queue's handlers, clear() apart.
QueueNext(phones, maxMsgs) ==
  \/ \E phoneOk \in phones : nextId <= maxMsgs /\ AddMessage(phoneOk)
  \/ \E s \in 1..MaxLoops : PacingDone(s)
  \/ \E s \in 1..MaxLoops : SettleDone(s)
  \/ \E id \in Ids, ok \in BOOLEAN : SendResult(id, ok)
  \/ \E d \in TickSteps : Tick(d)

\* The dispatch core in service: the queue, the send path and the
\* connection manager of a paired session.  Records come from the router,
\* which enqueues only numbers the validator accepts; clear() is not called
\* (index.ts calls it on shutdown only).
Next == QueueNext({TRUE}, MaxMsgs) \/ LinkNext(MaxInits)

Spec == Init /\ [][Next]_vars

\* The queue with clear() called at any moment, on a service that is
\* initialized once and connects.
NextClear ==
  \/ QueueNext(BOOLEAN, MaxClearMsgs)
  \/ Clear
  \/ InitializeApp(TRUE)
  \/ ConnectionOpen

SpecClear == Init /\ [][NextClear]_vars

\* The queue without clear(), on a service that is initialized once and
\* connects: the order of dispatch among several waiting records.
NextQueue ==
  \/ QueueNext({TRUE}, MaxQueueMsgs)
  \/ InitializeApp(TRUE)
  \/ ConnectionOpen

SpecQueue == Init /\ [][NextQueue]_vars

\* The same, with time passing and every setTimeout callback run once its
\* delay has expired (Node's timer phase runs every expired timer).
SpecQueueFair ==
  /\ SpecQueue
  /\ WF_vars(\E d \in TickSteps : Tick(d))
  /\ WF_vars(\E s \in 1..MaxLoops : PacingDone(s))
  /\ WF_vars(\E s \in 1..MaxLoops : SettleDone(s))

\* The dispatch core of a service that is initialized once and connects,
\* with the shutdown handler run at any moment.
NextShutdown ==
  \/ QueueNext({TRUE}, MaxMsgs)
  \/ Shutdown
  \/ InitializeApp(TRUE)
  \/ ConnectionOpen

SpecShutdown == Init /\ [][NextShutdown]_vars

\* The queue as in SpecQueue, with a throwing 'messageFailed' listener.  A
\* rejected processQueue() is an unhandled rejection, on which index.ts
\* exits the process (part_002:691-697): nothing runs after it.
Exited == \E s \in 1..MaxLoops : loops[s].pc = "rejected"
NextObserved == ~Exited /\ NextQueue

SpecObserved == InitObserved /\ [][NextObserved]_vars

\* The web page in front of the service: what the form holds when it is
\* submitted, the requests on their way and the server handling them.
FormPhones == {NoPhone, Phone(FALSE, "", TRUE, "sa"), Phone(FALSE, "", FALSE, "bad")}
AllRequests ==
  {[Request(n, p, TRUE) EXCEPT !.stage = st, !.status = c] :
     n \in 1..MaxRequests + 1, p \in FormPhones \ {NoPhone},
     st \in {"sent", "answered", "json"}, c \in {0, 200, 400, 503}}
NextUi ==
  \/ \E p \in FormPhones, h \in BOOLEAN : ui.nextReq <= MaxRequests /\ Submit(p, h)
  \/ \E r \in AllRequests : nextId <= MaxMsgs /\ ServeUi(r)
  \/ \E r \in AllRequests : FetchRejects(r)
  \/ \E r \in AllRequests : FetchResolves(r)
  \/ \E r \in AllRequests, ok \in BOOLEAN : JsonSettles(r, ok)
  \/ \E s \in 1..MaxLoops : PacingDone(s)
  \/ \E s \in 1..MaxLoops : SettleDone(s)
  \/ \E id \in Ids, ok \in BOOLEAN : SendResult(id, ok)
  \/ \E d \in TickSteps : Tick(d)
  \/ InitializeApp(TRUE)
  \/ ConnectionOpen

SpecUi == Init /\ [][NextUi]_vars

\* The service as its HTTP clients drive it: records enter through the two
\* send endpoints only, on a paired session whose connection comes and goes.
NextApi ==
  \/ \E e \in SendEndpoints, p \in PhoneNumbers \cup {NoPhone}, h \in BOOLEAN :
       nextId <= MaxMsgs /\ PostSend(e, p, h)
  \/ \E s \in 1..MaxLoops : PacingDone(s)
  \/ \E s \in 1..MaxLoops : SettleDone(s)
  \/ \E id \in Ids, ok \in BOOLEAN : SendResult(id, ok)
  \/ \E d \in TickSteps : Tick(d)
  \/ LinkNext(MaxInits)

SpecApi == Init /\ [][NextApi]_vars

\* The connection manager alone, over a long series of sockets, with
\* challenges.
NextConn == LinkNext(MaxConnInits) \/ ChallengeNext

SpecConn == Init /\ [][NextConn]_vars

\* The connection manager when a socket may report a close more than once.
NextReclose ==
  \/ NextConn
  \/ \E c \in Causes : obs.closes < MaxCloses /\ ConnectionCloseAgain(c)

SpecReclose == Init /\ [][NextReclose]_vars

\* The connection manager with POST /api/logout.
NextSession ==
  \/ NextConn
  \/ LogoutNoSocket
  \/ LogoutStart
  \/ \E ok \in BOOLEAN : LogoutDone(ok)

SpecSession == Init /\ [][NextSession]_vars

\* ------------------------------------------------------------------------
\* Claims
\* ------------------------------------------------------------------------

\* MessageQueue.getStatus
getStatus ==
  [pending    |-> Cardinality({i \in 1..Len(queue) : queue[i].status = "pending"}),
   processing |-> Cardinality({i \in 1..Len(queue) : queue[i].status = "sending"}),
   completed  |-> 0,
   failed     |-> 0]

Enqueued(id) == id < nextId
Held(id) == \E s \in Alive : loops[s].item.id = id
Outstanding(id) == \E c \in sendCalls : c.id = id
\* the record is nowhere any more: not stored, not held by a loop, and no
\* attempt for it is awaiting its outcome
Settled(id) ==
  Enqueued(id) /\ ~InQueue(queue, id) /\ ~Held(id) /\ ~Outstanding(id)
\* every dispatch of the record reached the socket and was reported failed
FailedEveryAttempt(id) ==
  /\ ev.delivered[id] = 0
  /\ ev.sendMessage[id] >= 1
  /\ ev.messageSending[id] = ev.sendMessage[id]
  /\ ev.sockSend[id] = ev.sendMessage[id]
  /\ ev.failed[id] = ev.sendMessage[id]

\* C1 (Scenario B, as claimed): a record whose every attempt the transport
\* reports failed is, once it is settled, a record that was handed off
\* exactly 3 times and for which exactly one permanentlyFailed (queue
\* messageFailed) was emitted, and it is counted in no queue status figure.
C1_AutoRetryThreeTimes ==
  \A id \in Ids :
    (FailedEveryAttempt(id) /\ Settled(id))
      => /\ ev.messageSending[id] = retryLimit
         /\ ev.sendMessage[id] = retryLimit
         /\ ev.queueFailed[id] = 1
         /\ ~InQueue(queue, id)

\* C2: no record stored, held by a loop or in flight has retryCount above 3,
\* and no record is dispatched (messageSending) or handed to the adapter
\* (sendMessage) more than 3 times, whatever mix of throws and transport
\* failures occurs.
AllRecords ==
  {queue[i] : i \in 1..Len(queue)} \cup {loops[s].item : s \in Alive} \cup sendCalls
C2_BoundedRetry ==
  /\ \A r \in AllRecords : r.retryCount <= retryLimit
  /\ \A id \in Ids : /\ ev.messageSending[id] <= retryLimit
                     /\ ev.sendMessage[id] <= retryLimit
                     /\ ev.queueFailed[id] = 1 => ev.messageSending[id] = retryLimit

\* C2 witness: a record was dispatched 3 times and then failed permanently.
C2_Witness ==
  \E id \in Ids : ev.messageSending[id] = retryLimit /\ ev.queueFailed[id] = 1
                  /\ Settled(id)

\* C3 (as claimed): a settled record whose attempt the transport reported
\* on has exactly one terminal outcome, delivered or permanently failed.
C3_ExactlyOneTerminalOutcome ==
  \A id \in Ids :
    (Settled(id) /\ ev.delivered[id] + ev.failed[id] >= 1)
      => ev.delivered[id] + ev.queueFailed[id] = 1

\* the records the queue's bookkeeping shows as Sending: marked in flight in
\* processingMessages with status 'sending', or stored with that status
SendingByBookkeeping ==
  {id \in processingMessages : \E c \in sendCalls : c.id = id /\ c.status = "sending"}
    \cup {queue[i].id : i \in {j \in 1..Len(queue) : queue[j].status = "sending"}}

\* C4 (as claimed): at most one record is Sending (handed off, outcome not
\* reconciled) by the record statuses and the processingMessages set.
C4_AtMostOneSending == Cardinality(SendingByBookkeeping) <= 1

\* C4 (amended): at most one record of the store has status Sending, i.e.
\* getStatus().processing <= 1 and the pending figure is the whole store;
\* processingMessages is not so bounded.
C4_StoreSendingAtMostOne ==
  /\ getStatus.processing <= 1
  /\ getStatus.pending + getStatus.processing = Len(queue)

\* C4 witness: two handed-off records await their outcomes, both marked in
\* processingMessages, and the store reports none as Sending.
C4_Witness ==
  /\ Cardinality(SendingByBookkeeping) = 2
  /\ getStatus.processing = 0

\* a hand-off: the queue emits sendMessage for some record in this step
HandOffOf(id) == ev'.sendMessage[id] > ev.sendMessage[id]

\* C5 (as claimed): two successive hand-offs (sendMessage emissions) are
\* never less than minDelay apart: at every hand-off at least minDelay has
\* passed since the previous one.
C5_HandOffsMinDelayApart ==
  [][\A id \in Ids : HandOffOf(id) => elapsed >= minDelay]_vars

\* a record is enqueued into an idle queue while the transport is Connected
IdleEnqueue ==
  /\ nextId' = nextId + 1
  /\ ~isProcessing /\ Alive = {}
  /\ sock = "open" /\ isAuthenticated
PacingFor(id, lo, hi) ==
  \E s \in 1..MaxLoops : /\ loops'[s].pc = "pacing"
                         /\ loops'[s].item.id = id
                         /\ loops'[s].timer >= lo
                         /\ loops'[s].timer <= hi

\* C6 (Scenario A, as claimed): the record enqueued into an idle queue is
\* dispatched no earlier than 1000 ms and earlier than 5000 ms after the
\* enqueue: the enqueue leaves it waiting for such a delay, undispatched.
C6_DispatchAfterMinDelay ==
  [][IdleEnqueue => /\ ev'.messageSending[nextId] = 0
                    /\ PacingFor(nextId, minDelay, maxDelay - 1)]_vars

\* C6 (amended): the record enqueued into an idle queue is dispatched
\* max(0, jitter - elapsed) ms after the enqueue, jitter in 1000..5000,
\* elapsed the time since the previous hand-off: earlier than 5000 ms after
\* the enqueue, at least 1000 ms after the previous hand-off, and within
\* addMessage itself when no hand-off happened in the last 5000 ms (so for
\* the first record ever); on the transport's ack a delivered event is
\* emitted and the record is not in the store.
C6_DispatchWithinMaxDelay ==
  [][/\ IdleEnqueue =>
          \/ ev'.messageSending[nextId] >= 1 /\ elapsed >= minDelay
          \/ /\ ev'.messageSending[nextId] = 0
             /\ PacingFor(nextId, Max(1, minDelay - elapsed),
                          Min(maxDelay - 1, maxDelay - elapsed))
     /\ (IdleEnqueue /\ elapsed >= maxDelay) => ev'.messageSending[nextId] >= 1
     /\ \A id \in Ids :
          ev'.delivered[id] > ev.delivered[id]
            => /\ ev'.delivered[id] = ev.delivered[id] + 1
               /\ ~InQueue(queue', id)
               /\ id \notin processingMessages']_vars

\* C6 witness: the first record (enqueued into an idle queue) was
\* dispatched once and delivered.
C6_Witness ==
  /\ ev.messageSending[1] = 1
  /\ ev.delivered[1] = 1
  /\ Settled(1)

C8_ConflictNoReconnect ==
  (obs.handler = "close" /\ obs.cause = "conflict")
    => /\ ~isConnected
       /\ ~isAuthenticated
       /\ obs.stateChange
       /\ obs.scheduled = 0
       /\ reconnectTimeout = 0

\* C8 witness: a conflict close was handled with reconnectAttempts neither
\* 0 nor at its cap.
C8_Witness ==
  /\ obs.handler = "close"
  /\ obs.cause = "conflict"
  /\ reconnectAttempts >= 1
  /\ reconnectAttempts < maxReconnectAttempts

C10_NoChallengeWhileConnected ==
  isAuthenticated => (qrCode = 0 /\ qrTimers = {})

\* C11: reconnectAttempts is 0 whenever the state is Connected, so right
\* after every transition into Connected; it counts the reconnects scheduled
\* since the connection was last Connected, of which 10 are available again.
C11_AttemptsResetOnConnected ==
  /\ isAuthenticated => reconnectAttempts = 0
  /\ reconnectAttempts = Len(obs.delays)
  /\ reconnectAttempts <= maxReconnectAttempts

\* C11 witness: Connected was entered on a socket made by a reconnect, so
\* with reconnectAttempts at least 1 before, and it is 0.
C11_Witness ==
  /\ obs.handler = "open"
  /\ listeners >= 2
  /\ isAuthenticated
  /\ reconnectAttempts = 0

\* C12: after a close with the logged-out cause the state is Disconnected
\* and that close scheduled no reconnect (none is pending), whatever
\* reconnectAttempts is.
C12_LoggedOutNoReconnect ==
  (obs.handler = "close" /\ obs.cause = "loggedOut")
    => /\ ~isConnected
       /\ ~isAuthenticated
       /\ obs.scheduled = 0
       /\ reconnectTimeout = 0

\* C12 witness: a logged-out close was handled with reconnectAttempts
\* neither 0 nor at its cap.
C12_Witness ==
  /\ obs.handler = "close"
  /\ obs.cause = "loggedOut"
  /\ reconnectAttempts >= 1
  /\ reconnectAttempts < maxReconnectAttempts

\* C13: a send attempted while the connection is not ready (no socket or
\* not authenticated) fails fast: every listener's attempt reports a
\* failure with the 'not connected' reason, nothing is delivered, the
\* socket's send is not invoked and no call is left awaiting it.
C13_NotReadyFailsFast ==
  [][(sock = "none" \/ ~isAuthenticated) =>
       /\ sendCalls' \subseteq sendCalls
       /\ waProcessingMessages' \subseteq waProcessingMessages
       /\ \A id \in Ids :
            /\ ev'.sockSend[id] = ev.sockSend[id]
            /\ HandOffOf(id) =>
                 /\ ev'.notConnected[id] = ev.notConnected[id] + listeners
                 /\ ev'.failed[id] = ev.failed[id] + listeners
                 /\ ev'.delivered[id] = ev.delivered[id]]_vars

\* C13 witness: a send was attempted on a closed socket: it failed with the
\* 'not connected' reason and the socket's send was never invoked for it.
C13_Witness ==
  \E id \in Ids : /\ sock = "closed"
                  /\ ev.notConnected[id] >= 1
                  /\ ev.failed[id] = ev.notConnected[id]
                  /\ ev.sockSend[id] = 0
                  /\ ev.delivered[id] = 0

\* C14 (as claimed): a record that failed with the 'not connected' reason
\* and has not permanently failed is kept for another attempt: it is in
\* the store, held by the loop or in flight, with its retryCount
\* incremented.
C14_NotConnectedRetried ==
  \A id \in Ids :
    (ev.notConnected[id] >= 1 /\ ev.queueFailed[id] = 0)
      => \E r \in AllRecords : r.id = id /\ r.retryCount >= 1

\* the record's failure is reconciled in this step: the transport reported
\* it failed, or its dispatch threw before the hand-off
FailureReconciled(id) ==
  \/ ev'.failed[id] > ev.failed[id]
  \/ /\ ev'.messageSending[id] > ev.messageSending[id]
     /\ ev'.sendMessage[id] = ev.sendMessage[id]
\* the record is stored Pending behind every record that was already in
\* the store before the step and still is
AtTailPending(id) ==
  /\ InQueue(queue', id)
  /\ queue'[IndexOf(queue', id)].status = "pending"
  /\ \A j \in 1..Len(queue') :
       (queue'[j].id # id /\ InQueue(queue, queue'[j].id)) => j < IndexOf(queue', id)

\* C15 (as claimed): when a record's failure is reconciled and it is still
\* under the retry limit (no permanent failure is emitted for it), it is
\* set back to Pending at the tail of the store, behind every record that
\* was already waiting, unless the loop has already dequeued it again after
\* them.
C15_FailedRequeuedAtTail ==
  [][\A id \in Ids :
       (FailureReconciled(id) /\ ev'.queueFailed[id] = ev.queueFailed[id])
         => \/ AtTailPending(id)
            \/ /\ \E s \in 1..MaxLoops : loops'[s].item.id = id
               /\ \A j \in 1..Len(queue) : queue[j].id # id => ~InQueue(queue', queue[j].id)]_vars

C17_SoleConsumer == Cardinality(Alive) <= 1

C19_NeverDequeuedTwice ==
  /\ \A i, j \in 1..Len(queue) : i # j => queue[i].id # queue[j].id
  /\ \A s, t \in Alive :
       (s # t /\ loops[s].pc = "pacing" /\ loops[t].pc = "pacing")
         => loops[s].item.id # loops[t].item.id
  /\ \A id \in Ids :
       /\ InQueue(queue, id) => (~Held(id) /\ ~Outstanding(id))
       /\ Held(id) => ~Outstanding(id)
       /\ ev.sendMessage[id] <= 1
       /\ (InQueue(queue, id) \/ Held(id)) => ev.sendMessage[id] = 0
  /\ \A i \in 1..Len(queue) : ev.messageSending[queue[i].id] = queue[i].retryCount
  /\ \A s \in Alive :
       loops[s].pc = "pacing"
         => ev.messageSending[loops[s].item.id] = loops[s].item.retryCount

\* C19 witness: two loops run concurrently, each holding a record it
\* dequeued, while another record's attempt awaits its outcome.
C19_Witness ==
  /\ \E s, t \in Alive : s # t /\ loops[s].pc = "pacing" /\ loops[t].pc = "pacing"
  /\ sendCalls # {}

\* C20 (as claimed): a record that clear() discarded before it was handed
\* off is never handed to the transport.  A record a loop holds whose id is
\* not in processingMessages is such a record: the dequeue added the id and
\* only clear() can have removed it while the loop holds the record.
C20_ClearedNeverHandedOff ==
  [][\A id \in Ids :
       (Held(id) /\ id \notin processingMessages) => ~HandOffOf(id)]_vars

\* C21 (as claimed): each hand-off of a record to the adapter results in
\* exactly one outcome event for its id.  Never two: the outcomes emitted
\* for a record are never more than its hand-offs.  Never zero: a hand-off
\* to an initialized service either leaves an attempt awaiting the socket
\* or has its one outcome at once, and an attempt that stops awaiting has
\* its one outcome.
C21_OneOutcomePerHandOff ==
  [][\A id \in Ids :
       /\ ev'.delivered[id] + ev'.failed[id] <= ev'.sendMessage[id]
       /\ (HandOffOf(id) /\ listeners >= 1)
            => \/ \E c \in sendCalls' : c.id = id
               \/ ev'.delivered[id] + ev'.failed[id] = 1
       /\ (Outstanding(id) /\ ~\E c \in sendCalls' : c.id = id)
            => ev'.delivered[id] + ev'.failed[id] = 1]_vars

\* C22: permanentlyFailed (queue messageFailed) is emitted at most once per
\* record, only when its retry budget is exhausted (its 3rd dispatch
\* failed), and from then on the record is neither in the store, nor held
\* by a loop, nor in the queue's in-flight set.
C22_PermanentFailureOnce ==
  \A id \in Ids :
    /\ ev.queueFailed[id] <= 1
    /\ ev.queueFailed[id] = 1
         => /\ ev.messageSending[id] = retryLimit
            /\ ~InQueue(queue, id)
            /\ ~Held(id)
            /\ id \notin processingMessages

\* C22 witness: record 1 failed permanently without ever reaching the
\* adapter, and the loop went on to hand off record 2.
C22_Witness ==
  /\ ev.queueFailed[1] = 1
  /\ ev.sendMessage[1] = 0
  /\ ev.sendMessage[2] = 1

\* C23: a failed reconnection is retried per backoff: when the
\* re-initialization run by the reconnect timer fails while
\* reconnectAttempts is below the cap of 10, a further reconnect is
\* scheduled.
C23_FailedReconnectRetried ==
  [][(/\ obs'.handler = "reconnect"
      /\ listeners' = listeners
      /\ reconnectAttempts' < maxReconnectAttempts)
       => reconnectTimeout' > 0]_vars

\* C24: validation failures never reach the queue: on both send endpoints a
\* request whose phone number is missing or rejected by the validator is
\* answered 400 and leaves the queue, the loops and the events as they were
\* (addMessage is not called); every record in the store or held by a loop
\* has a destination the adapter can format.
C24_InvalidNeverEnqueued ==
  /\ [](\A r \in AllRecords : r.id # 0 => r.phoneOk)
  /\ [][\A e \in SendEndpoints, p \in PhoneNumbers \cup {NoPhone}, h \in BOOLEAN :
         ((p = NoPhone \/ parseSaudiOrEgyptianNumber(p) = Null) /\ PostSend(e, p, h))
           => /\ obs'.response = 400
              /\ UNCHANGED queueVars]_vars

\* C24 witness: with one record accepted and waiting or in flight, a request
\* to the direct endpoint was refused.
C24_Witness ==
  /\ obs.handler = "/send-message-direct"
  /\ obs.response = 400
  /\ nextId = 2
  /\ isAuthenticated

\* C25: the queue never throws past its boundary: an exception of an observer
\* during a hand-off or during outcome reporting does not escape
\* processQueue (no activation ends rejected), and when no activation is
\* left isProcessing is false again.
C25_NoEscapeFromProcessQueue ==
  /\ ~Exited
  /\ Alive = {} => ~isProcessing

\* C26: challenge expiry changes only the challenge: when the 2-minute timer
\* fires the stored challenge is removed and a state change is emitted,
\* while isConnected, isAuthenticated, reconnectAttempts, the pending
\* reconnect timer and the socket stay as they were.
C26_ExpiryChangesOnlyChallenge ==
  [][(obs'.handler = "qrExpire" /\ qrTimers' # qrTimers)
       => /\ qrCode' = 0
          /\ obs'.stateChange
          /\ UNCHANGED <<isConnected, isAuthenticated, reconnectAttempts,
                         reconnectTimeout, sock>>]_vars

\* C26 witness: a challenge expired while a reconnect was pending after a
\* close, and the reconnect is still pending.
C26_Witness ==
  /\ obs.handler = "qrExpire"
  /\ qrCode = 0
  /\ reconnectAttempts > 0
  /\ reconnectTimeout > 0

\* C27: the dispatcher never waits for the transport: a loop whose pacing or
\* settle wait has expired can go on whatever attempts are still awaiting
\* their outcome, so that two attempts can be outstanding at once.
C27_DispatcherNeverWaits ==
  \A s \in 1..MaxLoops :
    /\ (loops[s].pc = "settle" /\ loops[s].timer = 0) => ENABLED SettleDone(s)
    /\ (loops[s].pc = "pacing" /\ loops[s].timer = 0) => ENABLED PacingDone(s)

\* C27 witness: two attempts are outstanding at the transport at once, and
\* the loop's settle wait after the second has expired.
C27_Witness ==
  /\ Cardinality(sendCalls) = 2
  /\ \E s \in 1..MaxLoops : loops[s].pc = "settle" /\ loops[s].timer = 0

\* C28: duplicate submission prevention in the web page: at most one
\* send-message request is outstanding at a time, and the guard isSubmitting
\* is set exactly while one is: a submit during a pending submission sends
\* nothing, and the guard is released when the request finishes, whether it
\* succeeds, is refused or throws.
C28_OneSubmissionOutstanding ==
  /\ Cardinality(ui.requests) <= 1
  /\ ui.isSubmitting <=> ui.requests # {}

\* C28 witness: a second submit arrived while the first request was still
\* awaited and was turned away; the first is still the only one.
C28_Witness ==
  /\ ui.toast = "wait"
  /\ ui.nextReq = 2
  /\ \E r \in ui.requests : r.n = 1 /\ r.stage = "answered" /\ r.status = 200

\* C29: queue-side and transport-side in-flight tracking agree: an id is in
\* WhatsAppService.processingMessages only if it is in
\* MessageQueue.processingMessages too, also after clear().
C29_InFlightSetsAgree ==
  waProcessingMessages \subseteq processingMessages

\* C30: success is final: when the transport acknowledges an attempt the
\* delivered event is emitted, and a delivered record is neither in the
\* store, nor held by a loop, nor in the queue's in-flight set, nor awaiting
\* an outcome, and is never handed to the transport again.
C30_SuccessIsFinal ==
  /\ [](\A id \in Ids :
          ev.delivered[id] >= 1
            => /\ ~InQueue(queue, id)
               /\ ~Held(id)
               /\ id \notin processingMessages
               /\ ~Outstanding(id))
  /\ [][\A id \in Ids :
          /\ ev.delivered[id] >= 1
               => /\ ev'.sendMessage[id] = ev.sendMessage[id]
                  /\ ev'.sockSend[id] = ev.sockSend[id]
                  /\ ev'.delivered[id] = ev.delivered[id]
          /\ (Outstanding(id) /\ ~(\E c \in sendCalls' : c.id = id)
                /\ ev'.failed[id] = ev.failed[id])
               => ev'.delivered[id] = 1]_vars

\* C30 witness: record 1 was delivered after one hand-off, and the loop has
\* since handed off record 2.
C30_Witness ==
  /\ ev.delivered[1] = 1
  /\ ev.sendMessage[1] = 1
  /\ ev.sendMessage[2] = 1
  /\ ev.delivered[2] = 0

\* MessageQueue.getMessage: the stored record with that id, or undefined
getMessage(id) ==
  IF InQueue(queue, id) THEN queue[IndexOf(queue, id)] ELSE NoItem

\* router.get('/message/:messageId'): the response status
messageRoute(id) == IF getMessage(id) = NoItem THEN 404 ELSE 200

\* C31: a record that was enqueued and is neither delivered nor permanently
\* failed can be looked up by id: while it waits in the store, while a loop
\* holds it in its pacing wait and while its attempt is in flight,
\* getMessage returns it and the route does not answer 404.
C31_LookupWhileUnsettled ==
  \A id \in Ids :
    (InQueue(queue, id) \/ Held(id) \/ Outstanding(id))
      => /\ getMessage(id).id = id
         /\ messageRoute(id) = 200

\* the dispatches of the record that threw before its hand-off
Throws(e, id) == e.messageSending[id] - e.sendMessage[id]

\* C32: when a hand-off raises synchronously the record's retryCount grows
\* by one and it leaves the in-flight set; below 3 it is re-appended to the
\* tail as Pending, at 3 messageFailed is emitted once and it is dropped: a
\* record whose dispatch always throws is dispatched exactly 3 times and
\* fails permanently exactly once.
C32_SyncThrowRetried ==
  /\ [](\A id \in Ids :
          /\ Throws(ev, id) \in 0..retryLimit
          /\ \A r \in AllRecords : r.id = id => r.retryCount = Throws(ev, id)
          /\ ev.queueFailed[id] = (IF Throws(ev, id) = retryLimit THEN 1 ELSE 0)
          /\ Throws(ev, id) = retryLimit
               => /\ ev.messageSending[id] = retryLimit
                  /\ ~InQueue(queue, id) /\ ~Held(id)
                  /\ id \notin processingMessages
          /\ Throws(ev, id) \in 1..(retryLimit - 1)
               => InQueue(queue, id) \/ Held(id) \/ ev.sendMessage[id] = 1
          /\ InQueue(queue, id)
               => /\ queue[IndexOf(queue, id)].status = "pending"
                  /\ id \notin processingMessages)
  /\ [][\A id \in Ids :
          (Throws(ev', id) > Throws(ev, id) /\ InQueue(queue', id))
            => AtTailPending(id)]_vars

\* C32 witness: every dispatch of record 1 threw and it failed permanently;
\* a dispatch of record 2 threw once and it was handed off on the next.
C32_Witness ==
  /\ Throws(ev, 1) = retryLimit
  /\ ev.queueFailed[1] = 1
  /\ Throws(ev, 2) = 1
  /\ ev.sendMessage[2] = 1

\* C33: the transport-side in-flight guard makes the socket send at most
\* once per hand-off: one sendMessage event of the queue leads to at most
\* one call of sock.sendMessage for that id, however many sendMessage
\* listeners initialize() has registered.
C33_OneSocketSendPerHandOff ==
  /\ [](\A id \in Ids : ev.sockSend[id] <= ev.sendMessage[id])
  /\ [][\A id \in Ids :
          /\ ev'.sockSend[id] <= ev.sockSend[id] + 1
          /\ ev'.sockSend[id] > ev.sockSend[id] => HandOffOf(id)]_vars

\* C33 witness: with two listeners registered, record 1 was handed off once
\* and the socket was called once for it.
C33_Witness ==
  /\ listeners = 2
  /\ ev.sendMessage[1] = 1
  /\ ev.sockSend[1] = 1
  /\ Outstanding(1)

\* the request passes the validation of its endpoint
WellFormed(e, p, h) ==
  /\ p # NoPhone
  /\ e = "/send-message" => h
  /\ parseSaudiOrEgyptianNumber(p) # Null

C35_OneReconnectTimer ==
  /\ [](/\ Cardinality(reconnectTimers) <= 1
        /\ reconnectTimers = IF reconnectTimeout > 0 THEN {reconnectTimeout} ELSE {})
  /\ [][reconnectTimers' # reconnectTimers /\ reconnectTimers' = {}
          => obs'.handler = "reconnect"]_vars

\* a second close event has replaced the pending timer of the first
C35_Witness ==
  /\ obs.handler = "close"
  /\ obs.closes = 2
  /\ obs.delays = <<5000, 10000>>
  /\ reconnectTimers = {10000}

\* C39: connected and authenticated are the same thing: isConnected and
\* isAuthenticated are equal in every reachable state of the connection
\* manager; each handler that writes one writes the other to the same value.
C39_ConnectedIffAuthenticated ==
  /\ [](isConnected = isAuthenticated)
  /\ [][isConnected' # isConnected => obs'.handler \in {"open", "close", "logout"}]_vars

\* a logout has completed on the second socket, which had opened
C39_Witness ==
  /\ obs.handler = "logout"
  /\ obs.cause = "done"
  /\ sock = "closed"
  /\ ~isConnected
  /\ ~isAuthenticated
  /\ listeners = 2
  /\ obs.closes = 0

\* C37: issuing a new challenge replaces the previous one and restarts its
\* expiry: at most one challenge-expiry timer is pending, and the timer that
\* removes a stored challenge is that challenge's own, never an earlier one's.
C37_OneExpiryTimer ==
  /\ [](Cardinality(qrTimers) <= 1)
  /\ [][\A n \in 1..MaxQr :
          (qrCode > 0 /\ qrCode' = 0 /\ qrTimers' = qrTimers \ {n} /\ n \in qrTimers)
            => n = qrCode]_vars

\* logout() has just completed without an error
LoggedOut == obs.handler = "logout" /\ obs.cause \in {"done", "noSocket"}

\* C36: when logout() completes successfully the state is Disconnected with
\* no challenge stored, neither a challenge-expiry timer nor a reconnect
\* timer is pending, and once it has ended the socket no automatic reconnect
\* fires from then on.
C36_LogoutLeavesNothingPending ==
  /\ [](LoggedOut => /\ ~isConnected
                     /\ ~isAuthenticated
                     /\ qrCode = 0
                     /\ qrTimers = {}
                     /\ reconnectTimers = {})
  /\ [](LoggedOut /\ sock = "closed" => [](obs.handler # "reconnect"))

\* C38: every record held in the queue array has status 'pending' in every
\* reachable state, so getStatus() reports processing = 0 and pending = the
\* array length.
C38_StoredRecordsPending ==
  /\ \A i \in 1..Len(queue) : queue[i].status = "pending"
  /\ getStatus.processing = 0
  /\ getStatus.pending = Len(queue)

\* a record whose hand-off threw is back in the array, pending, while the
\* loop holds the next one and another is in flight, marked 'sending'
C38_Witness ==
  /\ Len(queue) = 1
  /\ queue[1].retryCount = 1
  /\ queue[1].status = "pending"
  /\ getStatus.pending = 1
  /\ getStatus.processing = 0
  /\ \E c \in sendCalls : c.status = "sending"

====
